---- MODULE Spec2Model ----
(***************************************************************************)
(* Model of src/resume_builder_react.jsx: the ResumeBuilder component, its *)
(* `data` state (the resume document), the localStorage draft slot         *)
(* 'wf_resume_draft', the mutation handlers and the persist effect.        *)
(*                                                                         *)
(* JavaScript values are modelled with a tag `k`:                          *)
(*   [k |-> "str", v |-> "..."]   a string                                 *)
(*   [k |-> "num", v |-> n]       a number                                 *)
(*   [k |-> "arr", v |-> <<..>>]  an array                                 *)
(*   [k |-> "obj", v |-> f]       an object, f a function from its keys    *)
(*   [k |-> "null"], [k |-> "undefined"]                                   *)
(* The text held by the slot is a sequence of JSON tokens; JSONstringify   *)
(* produces it and JSONparse is a recursive-descent parser over it.        *)
(***************************************************************************)
EXTENDS Integers, Sequences, FiniteSets, TLC

(***************************************************************************)
(* Bounds of the model.                                                    *)
(***************************************************************************)
\* Number of handler invocations explored in one run of the component.
MaxOps == 2
\* Number of clock ticks (milliseconds) that may elapse after module load.
MaxTicks == 1
\* Number of downloadPDF calls explored in one run.
MaxExports == 2

\* Date.now() when the module is evaluated (line 42); milliseconds are
\* counted from the start of the earlier session that stored a draft.
LoadTime == 2

(***************************************************************************)
(* JavaScript values.                                                      *)
(***************************************************************************)
S(s) == [k |-> "str", v |-> s]
N(n) == [k |-> "num", v |-> n]
A(seq) == [k |-> "arr", v |-> seq]
O(f) == [k |-> "obj", v |-> f]
Null == [k |-> "null"]
Undefined == [k |-> "undefined"]

\* o[key]: a missing property reads as undefined.
Get(o, key) ==
  IF o.k = "obj" /\ key \in DOMAIN o.v THEN o.v[key] ELSE Undefined

\* The own properties that { ...o } copies: none for null or undefined.
Props(o) == IF o.k = "obj" THEN o.v ELSE <<>>

\* { ...o, [key]: val }
Spread(o, key, val) ==
  O([kk \in (DOMAIN Props(o)) \cup {key} |->
       IF kk = key THEN val ELSE Props(o)[kk]])

RECURSIVE FilterIndexOneBased(_, _, _)
RECURSIVE FilterIndex(_, _, _)

\* Mutant: the index is compared with the position counted from 1.
FilterIndexOneBased(seq, i, index) ==
  IF i > Len(seq) THEN <<>>
  ELSE (IF i # index THEN <<seq[i]>> ELSE <<>>)
         \o FilterIndexOneBased(seq, i + 1, index)

\* arr.filter((_, i) => i !== index), i counted from 0.
FilterIndex(seq, i, index) ==
  IF i > Len(seq) THEN <<>>
  ELSE (IF (i - 1) # index THEN <<seq[i]>> ELSE <<>>)
         \o FilterIndex(seq, i + 1, index)

\* !x for the values a handler tests: '' is falsy, as are null and undefined.
Falsy(x) == x.k \in {"null", "undefined"} \/ (x.k = "str" /\ x.v = "")

(***************************************************************************)
(* JSON text: a sequence of tokens.                                        *)
(***************************************************************************)
Tok(name) == [t |-> name]
StrTok(s) == [t |-> "str", v |-> s]
NumTok(n) == [t |-> "num", v |-> n]

\* Property order of the objects of this program (declaration order, lines
\* 27-54, 91 and 103); JSON.stringify emits properties in insertion order.
KeyOrder ==
  << "personal", "summary", "skills", "experience", "education", "template",
     "firstName", "lastName", "id", "title", "email", "phone", "location",
     "linkedin", "website", "company", "start", "end", "description",
     "degree", "school", "year" >>

OrderedKeys(f) == SelectSeq(KeyOrder, LAMBDA key : key \in DOMAIN f)

RECURSIVE JSONstringify(_)
RECURSIVE StringifyElements(_, _)
RECURSIVE StringifyMembers(_, _, _)

\* The elements of an array from position i on, separated by commas;
\* an undefined element is written as null.
StringifyElements(seq, i) ==
  IF i > Len(seq) THEN <<>>
  ELSE (IF i > 1 THEN <<Tok(",")>> ELSE <<>>)
         \o (IF seq[i].k = "undefined" THEN <<Tok("null")>>
             ELSE JSONstringify(seq[i]))
         \o StringifyElements(seq, i + 1)

\* The members of an object; a property whose value is undefined is left out.
StringifyMembers(f, keys, first) ==
  IF keys = <<>> THEN <<>>
  ELSE IF f[Head(keys)].k = "undefined"
       THEN StringifyMembers(f, Tail(keys), first)
       ELSE (IF first THEN <<>> ELSE <<Tok(",")>>)
              \o <<StrTok(Head(keys)), Tok(":")>>
              \o JSONstringify(f[Head(keys)])
              \o StringifyMembers(f, Tail(keys), FALSE)

\* Mutant: numbers are written as string literals.
JSONstringifyQuotesNumbers(x) ==
  CASE x.k = "str" -> <<StrTok(x.v)>>
    [] x.k = "num" -> <<StrTok(ToString(x.v))>>
    [] x.k = "null" -> <<Tok("null")>>
    [] x.k = "arr" -> <<Tok("[")>> \o StringifyElements(x.v, 1) \o <<Tok("]")>>
    [] x.k = "obj" ->
         <<Tok("{")>> \o StringifyMembers(x.v, OrderedKeys(x.v), TRUE)
                      \o <<Tok("}")>>

\* JSON.stringify(x) for the values a document is made of.
JSONstringify(x) ==
  CASE x.k = "str" -> <<StrTok(x.v)>>
    [] x.k = "num" -> <<NumTok(x.v)>>
    [] x.k = "null" -> <<Tok("null")>>
    [] x.k = "arr" -> <<Tok("[")>> \o StringifyElements(x.v, 1) \o <<Tok("]")>>
    [] x.k = "obj" ->
         <<Tok("{")>> \o StringifyMembers(x.v, OrderedKeys(x.v), TRUE)
                      \o <<Tok("}")>>

ParseFail == [ok |-> FALSE, val |-> Null, next |-> 0]
ParseOk(val, next) == [ok |-> TRUE, val |-> val, next |-> next]

RECURSIVE ParseValue(_, _)
RECURSIVE ParseElements(_, _, _)
RECURSIVE ParseMembers(_, _, _)

\* One value starting at token i.
ParseValue(ts, i) ==
  IF i > Len(ts) THEN ParseFail
  ELSE CASE ts[i].t = "str" -> ParseOk(S(ts[i].v), i + 1)
         [] ts[i].t = "num" -> ParseOk(N(ts[i].v), i + 1)
         [] ts[i].t = "null" -> ParseOk(Null, i + 1)
         [] ts[i].t = "[" ->
              IF i + 1 <= Len(ts) /\ ts[i + 1].t = "]"
              THEN ParseOk(A(<<>>), i + 2)
              ELSE ParseElements(ts, i + 1, <<>>)
         [] ts[i].t = "{" ->
              IF i + 1 <= Len(ts) /\ ts[i + 1].t = "}"
              THEN ParseOk(O(<<>>), i + 2)
              ELSE ParseMembers(ts, i + 1, <<>>)
         [] OTHER -> ParseFail

\* value (',' value)* ']'
ParseElements(ts, i, acc) ==
  LET r == ParseValue(ts, i) IN
  IF ~r.ok \/ r.next > Len(ts) THEN ParseFail
  ELSE IF ts[r.next].t = "," THEN ParseElements(ts, r.next + 1, Append(acc, r.val))
  ELSE IF ts[r.next].t = "]" THEN ParseOk(A(Append(acc, r.val)), r.next + 1)
  ELSE ParseFail

\* string ':' value (',' string ':' value)* '}' ; a repeated key keeps the
\* last value.
ParseMembers(ts, i, acc) ==
  IF i + 1 > Len(ts) \/ ts[i].t # "str" \/ ts[i + 1].t # ":" THEN ParseFail
  ELSE LET r == ParseValue(ts, i + 2)
           key == ts[i].v
           f == [kk \in (DOMAIN acc) \cup {key} |->
                   IF kk = key THEN r.val ELSE acc[kk]]
       IN IF ~r.ok \/ r.next > Len(ts) THEN ParseFail
          ELSE IF ts[r.next].t = "," THEN ParseMembers(ts, r.next + 1, f)
          ELSE IF ts[r.next].t = "}" THEN ParseOk(O(f), r.next + 1)
          ELSE ParseFail

\* JSON.parse(text): the value, or a SyntaxError when text is not exactly
\* one JSON value.
JSONparse(ts) ==
  LET r == ParseValue(ts, 1) IN
  IF r.ok /\ r.next = Len(ts) + 1
  THEN [threw |-> FALSE, val |-> r.val]
  ELSE [threw |-> TRUE, val |-> Undefined]

(***************************************************************************)
(* The built-in document (lines 27-54).                                    *)
(***************************************************************************)
PersonalFields ==
  {"firstName", "lastName", "title", "email", "phone", "location",
   "linkedin", "website"}
ExperienceFields == {"title", "company", "start", "end", "description"}
EducationFields == {"degree", "school", "year"}
Sections ==
  {"personal", "summary", "skills", "experience", "education", "template"}

defaultExperience ==
  O([id |-> N(LoadTime),
     title |-> S("Associate Product Manager"),
     company |-> S("TechCorp"),
     start |-> S("Jan 2021"),
     end |-> S("Present"),
     description |-> S("Owned feature lifecycle from discovery to launch. Led A/B tests and improved retention by 12%.")])

defaultEducation ==
  O([id |-> N(LoadTime + 1),
     degree |-> S("B.A. Business Administration"),
     school |-> S("University of Delaware"),
     year |-> S("2019")])

defaultData ==
  O([personal |->
       O([firstName |-> S("Jane"),
          lastName |-> S("Doe"),
          title |-> S("Product Manager"),
          email |-> S("jane.doe@example.com"),
          phone |-> S("(555) 555-5555"),
          location |-> S("Wilmington, DE"),
          linkedin |-> S("linkedin.com/in/janedoe"),
          website |-> S("janedoe.com")]),
     summary |-> S("Product manager with 5+ years of experience launching customer-focused features and leading cross-functional teams."),
     skills |-> A(<<S("Product Strategy"), S("Roadmapping"),
                    S("User Research"), S("Stakeholder Management")>>),
     experience |-> A(<<defaultExperience>>),
     education |-> A(<<defaultEducation>>),
     template |-> S("modern")])

(***************************************************************************)
(* The draft slot 'wf_resume_draft' of localStorage.                       *)
(***************************************************************************)
NoItem == [present |-> FALSE, text |-> <<>>]
Item(ts) == [present |-> TRUE, text |-> ts]

\* localStorage.getItem: null when the key is absent, else the stored text.
\* `saved ? ... : ...` (line 60) takes the else branch for null and for ''.
SavedIsTruthy(s) == s.present /\ s.text # <<>>

\* The try block of the useState initializer (lines 59-60): what it
\* returns, or that it threw (JSON.parse on text that is no JSON value).
TryLoad(s) ==
  IF SavedIsTruthy(s)
  THEN LET p == JSONparse(s.text) IN
       [threw |-> p.threw, val |-> p.val, isDefault |-> FALSE]
  ELSE [threw |-> FALSE, val |-> defaultData, isDefault |-> TRUE]

\* Mutant: the initializer without its catch clause.
InitialDataUncaught(s) == TryLoad(s)

\* The useState initializer (lines 57-64): the catch clause returns
\* defaultData.  isDefault tells whether the value is the defaultData object
\* itself.  This is load(): the document a new ResumeBuilder is seeded with.
InitialData(s) ==
  LET r == TryLoad(s) IN
  IF r.threw
  THEN [threw |-> FALSE, val |-> defaultData, isDefault |-> TRUE]
  ELSE r

\* Reading a property of null or undefined throws a TypeError.
PropThrows(x) == x.k \in {"null", "undefined"}

\* Whether rendering ResumeBuilder with document d throws (lines 146-153,
\* 169, 181, 208, 248-252 and the templates): data.personal.firstName,
\* data.skills.map, data.experience.map(exp => exp.id ...),
\* data.education.map(ed => ed.id ...).
RenderThrows(d) ==
  \/ PropThrows(d)
  \/ PropThrows(Get(d, "personal"))
  \/ \E sec \in {"skills", "experience", "education"} :
       Get(d, sec).k # "arr"
  \/ \E sec \in {"experience", "education"} :
       \E i \in 1..Len(Get(d, sec).v) : PropThrows(Get(d, sec).v[i])

(***************************************************************************)
(* The templates.  An element is its key and the values it shows, in       *)
(* document order; a template's tree keeps the lists of mapped elements.   *)
(***************************************************************************)
\* The em dash of the source is written " -- " and its bullet " * ".
El(key, children) == [key |-> key, children |-> children]

\* <div key={exp.id}> of ModernTemplate (lines 313-322).
ModernExperience(exp) ==
  El(Get(exp, "id"),
     <<Get(exp, "title"), Get(exp, "company"),
       Get(exp, "start"), S(" -- "), Get(exp, "end"),
       Get(exp, "description")>>)

\* <div key={ed.id}> of ModernTemplate (lines 331-334).
ModernEducation(ed) ==
  El(Get(ed, "id"),
     <<Get(ed, "degree"), Get(ed, "school"), S(" * "), Get(ed, "year")>>)

\* <div key={exp.id}> of ClassicTemplate (lines 375-381).
ClassicExperience(exp) ==
  El(Get(exp, "id"),
     <<Get(exp, "title"), S(" -- "), Get(exp, "company"),
       Get(exp, "description"),
       Get(exp, "start"), S(" -- "), Get(exp, "end")>>)

\* <div key={ed.id}> of ClassicTemplate (lines 390-393).
ClassicEducation(ed) ==
  El(Get(ed, "id"),
     <<Get(ed, "degree"), Get(ed, "school"), S(" * "), Get(ed, "year")>>)

\* <span key={i}>{s}</span> (lines 344, 402), i counted from 0.
SkillSpans(skills) ==
  [i \in 1..Len(skills) |-> El(N(i - 1), <<skills[i]>>)]

ModernTemplate(d) ==
  LET p == Get(d, "personal")
      experience == Get(d, "experience").v
      education == Get(d, "education").v
  IN [header |-> <<Get(p, "firstName"), S(" "), Get(p, "lastName"),
                   Get(p, "title"), Get(p, "email"), Get(p, "phone"),
                   Get(p, "location"), Get(p, "linkedin"),
                   Get(p, "website")>>,
      summary |-> <<S("Summary"), Get(d, "summary")>>,
      experience |->
        [i \in 1..Len(experience) |-> ModernExperience(experience[i])],
      education |->
        [i \in 1..Len(education) |-> ModernEducation(education[i])],
      skills |-> SkillSpans(Get(d, "skills").v)]

\* Mutant: the education section is mapped over data.experience.
ClassicTemplateMapsExperienceTwice(d) ==
  LET p == Get(d, "personal")
      experience == Get(d, "experience").v
  IN [header |-> <<Get(p, "firstName"), S(" "), Get(p, "lastName"),
                   Get(p, "title"), S(" * "), Get(p, "location"),
                   Get(p, "email"), S(" * "), Get(p, "phone"), S(" * "),
                   Get(p, "linkedin")>>,
      summary |-> <<S("Professional Summary"), Get(d, "summary")>>,
      experience |->
        [i \in 1..Len(experience) |-> ClassicExperience(experience[i])],
      education |->
        [i \in 1..Len(experience) |-> ClassicEducation(experience[i])],
      skills |-> SkillSpans(Get(d, "skills").v)]

ClassicTemplate(d) ==
  LET p == Get(d, "personal")
      experience == Get(d, "experience").v
      education == Get(d, "education").v
  IN [header |-> <<Get(p, "firstName"), S(" "), Get(p, "lastName"),
                   Get(p, "title"), S(" * "), Get(p, "location"),
                   Get(p, "email"), S(" * "), Get(p, "phone"), S(" * "),
                   Get(p, "linkedin")>>,
      summary |-> <<S("Professional Summary"), Get(d, "summary")>>,
      experience |->
        [i \in 1..Len(experience) |-> ClassicExperience(experience[i])],
      education |->
        [i \in 1..Len(education) |-> ClassicEducation(education[i])],
      skills |-> SkillSpans(Get(d, "skills").v)]

\* data.template === 'modern' ? <ModernTemplate/> : <ClassicTemplate/>
Preview(d) ==
  IF Get(d, "template") = S("modern")
  THEN ModernTemplate(d)
  ELSE ClassicTemplate(d)

(***************************************************************************)
(* Inputs.                                                                 *)
(***************************************************************************)
\* Text typed into a form field.
Texts == {"", "x"}
\* The fields the handlers are invoked on.
PersonalFieldInputs == {"firstName", "lastName"}
ExperienceFieldInputs == {"title"}
EducationFieldInputs == {"year"}
\* Text typed into a field of an entry.
EntryTexts == {"x"}
\* Text handed to addSkill: empty, blank, a word.
SkillTexts == {"", "   ", "Go"}
\* Text that consists of white space only.
BlankTexts == {"", "   "}
\* Values handed to setTemplate.
TemplateInputs == {"modern", "classic", "bogus"}
TemplateVariants == {"modern", "classic"}
\* A draft stored by an earlier session: its ids were taken before this
\* module was loaded.
StoredDraft ==
  Spread(Spread(defaultData,
                "experience", A(<<Spread(defaultExperience, "id", N(0))>>)),
         "education", A(<<Spread(defaultEducation, "id", N(1))>>))
\* StoredDraft without section sec.
Without(d, sec) == O([kk \in (DOMAIN d.v) \ {sec} |-> d.v[kk]])
\* The proper prefixes of a text: what a truncated write leaves behind.
Truncations(ts) == {SubSeq(ts, 1, n) : n \in 1..(Len(ts) - 1)}
\* Text that is no JSON value: a truncated draft, a draft followed by
\* more text, stray punctuation, a member without a value.
CorruptTexts ==
  Truncations(JSONstringify(StoredDraft))
    \cup {JSONstringify(StoredDraft) \o <<Tok("}")>>,
          <<Tok("}")>>, <<Tok(",")>>,
          <<Tok("{"), StrTok("summary"), Tok("}")>>,
          <<Tok("["), StrTok("x"), Tok(","), Tok("]")>>}
\* What the slot may hold when the component is constructed.
InitialSlots ==
  {NoItem, Item(<<>>), Item(<<Tok("null")>>), Item(<<Tok("{"), Tok("}")>>),
   Item(JSONstringify(StoredDraft))}
    \cup {Item(JSONstringify(Without(StoredDraft, sec))) : sec \in Sections}
    \cup {Item(ts) : ts \in CorruptTexts}
\* Last millisecond of the run.
LastTime == LoadTime + MaxTicks
\* Ids handed to update and remove.
IdInputs == 0..LastTime

(***************************************************************************)
(* State.                                                                  *)
(***************************************************************************)
VARIABLES
  data,             \* the `data` state of ResumeBuilder (line 57)
  dataIsDefault,    \* data === defaultData (the same object)
  slot,             \* localStorage['wf_resume_draft']
  status,           \* "init" before the first render ("threw" when the
                    \* initializer threw), then "mounted" or "crashed"
  renderPending,    \* a render (and its effect) is due
  clock,            \* the last value Date.now() returned
  exports,          \* the downloadPDF calls so far: the promise of
                    \* html2canvas (capture), the promise the call
                    \* returned and the `data` of its closure
  files,            \* the files pdf.save has written, in order
  nops,             \* handler invocations so far
  lastOp            \* the last handler invocation and its arguments

vars ==
  <<data, dataIsDefault, slot, status, renderPending, clock, exports, files,
    nops, lastOp>>

\* arg is the handler's text argument, id its id argument or the id it
\* generated, index its index argument, field its field argument.
Op(name, id, arg, index) ==
  [op |-> name, id |-> id, arg |-> arg, index |-> index, field |-> ""]
OpUpdate(name, id, field, value) ==
  [op |-> name, id |-> id, arg |-> value, index |-> -1, field |-> field]
NoOp == Op("none", -1, "", -1)

Init ==
  /\ slot \in InitialSlots
  /\ LET r == InitialData(slot) IN
       /\ data = r.val
       /\ dataIsDefault = r.isDefault
       /\ status = IF r.threw THEN "threw" ELSE "init"
  /\ renderPending = TRUE
  /\ clock = LoadTime
  /\ exports = <<>>
  /\ files = <<>>
  /\ nops = 0
  /\ lastOp = NoOp

(***************************************************************************)
(* Rendering and the persist effect (lines 68-70).                         *)
(***************************************************************************)
\* Mutant: the effect runs and writes nothing.
PersistEffectSkipsWrite(d, quotaExceeded) ==
  /\ status' = (IF quotaExceeded THEN "crashed" ELSE "mounted")
  /\ slot' = slot

\* The effect body: localStorage.setItem('wf_resume_draft',
\* JSON.stringify(data)).  setItem throws when the quota is exceeded; the
\* effect has no try/catch and the tree has no error boundary, so React
\* unmounts the component.
PersistEffect(d, quotaExceeded) ==
  IF quotaExceeded
  THEN /\ status' = "crashed"
       /\ slot' = slot
  ELSE /\ status' = "mounted"
       /\ slot' = Item(JSONstringify(d))

\* A render of the component with the current data, followed by the effect:
\* it runs after the first render and after every render in which `data`
\* is another object than in the render before.  A render is due only
\* then (see SetData and resetDraft), so the effect runs in every render.
Render ==
  /\ status \in {"init", "mounted"}
  /\ renderPending
  /\ renderPending' = FALSE
  /\ IF RenderThrows(data)
     THEN status' = "crashed" /\ slot' = slot
     ELSE \E quotaExceeded \in BOOLEAN : PersistEffect(data, quotaExceeded)
  /\ UNCHANGED <<data, dataIsDefault, clock, exports, files, nops, lastOp>>

(***************************************************************************)
(* Handlers.                                                               *)
(***************************************************************************)
\* setData(prev => next): next is a new object.
SetData(next) ==
  /\ data' = next
  /\ dataIsDefault' = FALSE
  /\ renderPending' = TRUE

\* A handler that returns without calling setData.
NoSetData == UNCHANGED <<data, dataIsDefault, renderPending>>

\* What every handler invocation does to the rest of the state.  Each
\* handler of the page runs in an event of its own, and React renders and
\* runs the effects of one event before it dispatches the next.
\* Mutant: the form is disabled while a capture is pending.
InvokeDisabledWhileExporting(op) ==
  /\ status = "mounted"
  /\ ~renderPending
  /\ \A i \in 1..Len(exports) : exports[i].capture # "pending"
  /\ nops < MaxOps
  /\ nops' = nops + 1
  /\ lastOp' = op
  /\ UNCHANGED <<status, exports, files>>

Invoke(op) ==
  /\ status = "mounted"
  /\ ~renderPending
  /\ nops < MaxOps
  /\ nops' = nops + 1
  /\ lastOp' = op
  /\ UNCHANGED <<status, exports, files>>

\* Line 73-75.
SetPersonalFieldResult(prev, field, value) ==
  Spread(prev, "personal", Spread(Get(prev, "personal"), field, S(value)))

setPersonalField(field, value) ==
  /\ Invoke(Op("setPersonalField", -1, "", -1))
  /\ SetData(SetPersonalFieldResult(data, field, value))
  /\ UNCHANGED <<slot, clock>>

\* Line 77.
SetSummaryResult(prev, value) == Spread(prev, "summary", S(value))

setSummary(value) ==
  /\ Invoke(Op("setSummary", -1, "", -1))
  /\ SetData(SetSummaryResult(data, value))
  /\ UNCHANGED <<slot, clock>>

\* Line 78.
SetTemplateResult(prev, tpl) == Spread(prev, "template", S(tpl))

setTemplate(tpl) ==
  /\ Invoke(Op("setTemplate", -1, tpl, -1))
  /\ SetData(SetTemplateResult(data, tpl))
  /\ UNCHANGED <<slot, clock>>

\* Lines 81-84.
AddSkillGuard(skill) == ~Falsy(S(skill))

AddSkillResult(prev, skill) ==
  Spread(prev, "skills", A(Get(prev, "skills").v \o <<S(skill)>>))

addSkill(skill) ==
  /\ Invoke(Op("addSkill", -1, skill, -1))
  /\ IF AddSkillGuard(skill)
     THEN SetData(AddSkillResult(data, skill))
     ELSE NoSetData
  /\ UNCHANGED <<slot, clock>>

\* Lines 85-87.
RemoveSkillResult(prev, index) ==
  Spread(prev, "skills", A(FilterIndex(Get(prev, "skills").v, 1, index)))

removeSkill(index) ==
  /\ Invoke(Op("removeSkill", -1, "", index))
  /\ SetData(RemoveSkillResult(data, index))
  /\ UNCHANGED <<slot, clock>>

\* Line 166, the Clear button.
ClearSkillsResult(prev) == Spread(prev, "skills", A(<<>>))

clearSkills ==
  /\ Invoke(Op("clearSkills", -1, "", -1))
  /\ SetData(ClearSkillsResult(data))
  /\ UNCHANGED <<slot, clock>>

\* Lines 90-93.  now is what Date.now() returns.
NewExperience(now) ==
  O([id |-> N(now), title |-> S(""), company |-> S(""), start |-> S(""),
     end |-> S(""), description |-> S("")])

AddExperienceResult(prev, now) ==
  Spread(prev, "experience",
         A(Get(prev, "experience").v \o <<NewExperience(now)>>))

addExperience ==
  \E now \in clock..LastTime :
    /\ Invoke(Op("addExperience", now, "", -1))
    /\ clock' = now
    /\ SetData(AddExperienceResult(data, now))
    /\ UNCHANGED slot

\* Mutant: an id that matches no entry gets an entry of its own.
UpdateEntriesUpsert(entries, id, field, value) ==
  IF \E i \in 1..Len(entries) : Get(entries[i], "id") = N(id)
  THEN [i \in 1..Len(entries) |->
          IF Get(entries[i], "id") = N(id)
          THEN Spread(entries[i], field, S(value)) ELSE entries[i]]
  ELSE Append(entries, Spread(O([id |-> N(id)]), field, S(value)))

\* Lines 94-96 and 106-108: the entries whose id === id get field replaced.
UpdateEntries(entries, id, field, value) ==
  [i \in 1..Len(entries) |->
     IF Get(entries[i], "id") = N(id)
     THEN Spread(entries[i], field, S(value)) ELSE entries[i]]

UpdateExperienceResult(prev, id, field, value) ==
  Spread(prev, "experience",
         A(UpdateEntries(Get(prev, "experience").v, id, field, value)))

updateExperience(id, field, value) ==
  /\ Invoke(OpUpdate("updateExperience", id, field, value))
  /\ SetData(UpdateExperienceResult(data, id, field, value))
  /\ UNCHANGED <<slot, clock>>

\* Lines 97-99 and 109-111: the entries whose id !== id are kept.
RemoveEntries(entries, id) ==
  SelectSeq(entries, LAMBDA e : Get(e, "id") # N(id))

RemoveExperienceResult(prev, id) ==
  Spread(prev, "experience", A(RemoveEntries(Get(prev, "experience").v, id)))

removeExperience(id) ==
  /\ Invoke(Op("removeExperience", id, "", -1))
  /\ SetData(RemoveExperienceResult(data, id))
  /\ UNCHANGED <<slot, clock>>

\* Line 200, the 'Reset to sample' button.
ResetToSampleResult(prev) ==
  Spread(prev, "experience", A(<<Get(defaultData, "experience").v[1]>>))

resetToSample ==
  /\ Invoke(Op("resetToSample", -1, "", -1))
  /\ SetData(ResetToSampleResult(data))
  /\ UNCHANGED <<slot, clock>>

\* Lines 102-105.
NewEducation(now) ==
  O([id |-> N(now), degree |-> S(""), school |-> S(""), year |-> S("")])

AddEducationResult(prev, now) ==
  Spread(prev, "education",
         A(Get(prev, "education").v \o <<NewEducation(now)>>))

addEducation ==
  \E now \in clock..LastTime :
    /\ Invoke(Op("addEducation", now, "", -1))
    /\ clock' = now
    /\ SetData(AddEducationResult(data, now))
    /\ UNCHANGED slot

\* Lines 106-108.
UpdateEducationResult(prev, id, field, value) ==
  Spread(prev, "education",
         A(UpdateEntries(Get(prev, "education").v, id, field, value)))

updateEducation(id, field, value) ==
  /\ Invoke(OpUpdate("updateEducation", id, field, value))
  /\ SetData(UpdateEducationResult(data, id, field, value))
  /\ UNCHANGED <<slot, clock>>

\* Lines 109-111.
RemoveEducationResult(prev, id) ==
  Spread(prev, "education", A(RemoveEntries(Get(prev, "education").v, id)))

removeEducation(id) ==
  /\ Invoke(Op("removeEducation", id, "", -1))
  /\ SetData(RemoveEducationResult(data, id))
  /\ UNCHANGED <<slot, clock>>

\* Mutant: the reset removes the stored draft and keeps the document.
resetDraftKeepsData(confirmed) ==
  /\ Invoke(Op("resetDraft", -1, IF confirmed THEN "ok" ELSE "cancel", -1))
  /\ NoSetData
  /\ slot' = (IF confirmed THEN NoItem ELSE slot)
  /\ UNCHANGED clock

\* Lines 128-133.  confirmed is what confirm() returns.  setData(defaultData)
\* with `data` already being that object schedules no render.
resetDraft(confirmed) ==
  /\ Invoke(Op("resetDraft", -1, IF confirmed THEN "ok" ELSE "cancel", -1))
  /\ IF confirmed
     THEN /\ data' = defaultData
          /\ dataIsDefault' = TRUE
          /\ renderPending' = ~dataIsDefault
          /\ slot' = NoItem
     ELSE NoSetData /\ slot' = slot
  /\ UNCHANGED clock

(***************************************************************************)
(* downloadPDF (lines 113-125).                                            *)
(***************************************************************************)
\* x || alt
OrElse(x, alt) ==
  IF Falsy(x) \/ (x.k = "num" /\ x.v = 0) THEN alt ELSE x

\* Mutant: one fallback for the whole name.
FileNameOneFallback(d) ==
  LET p == Get(d, "personal")
  IN IF Falsy(Get(p, "firstName")) \/ Falsy(Get(p, "lastName"))
     THEN <<S("resume"), S("-"), S("resume"), S(".pdf")>>
     ELSE <<Get(p, "firstName"), S("-"), Get(p, "lastName"), S(".pdf")>>

\* `${data.personal.firstName || 'resume'}-${data.personal.lastName ||
\* 'resume'}.pdf`, the parts of the template literal in order.
FileName(d) ==
  LET p == Get(d, "personal")
  IN <<OrElse(Get(p, "firstName"), S("resume")), S("-"),
       OrElse(Get(p, "lastName"), S("resume")), S(".pdf")>>

\* The state of a call that has reached its await.
Awaiting(d) == [capture |-> "pending", promise |-> "pending", data |-> d]

\* previewRef.current: the preview <div> while the component is mounted.
PreviewRefCurrent == IF status = "mounted" THEN "node" ELSE "null"

\* Mutant: a new request abandons the captures that are pending.
downloadPDFAbandonsPending ==
  /\ status = "mounted"
  /\ ~renderPending
  /\ Len(exports) < MaxExports
  /\ PreviewRefCurrent # "null"
  /\ exports' =
       Append([i \in 1..Len(exports) |->
                 IF exports[i].capture = "pending"
                 THEN [exports[i] EXCEPT !.promise = "rejected"]
                 ELSE exports[i]],
              Awaiting(data))
  /\ UNCHANGED <<data, dataIsDefault, slot, status, renderPending, clock,
                 files, nops, lastOp>>

\* A click on Download PDF: the function runs up to its await and returns a
\* pending promise.  `data` in its closure is the document of the render
\* that created the function, which is the current one, since React has
\* rendered before the click is dispatched.  The button exists only while
\* the component is mounted, so previewRef.current is the preview node.
downloadPDF ==
  /\ status = "mounted"
  /\ ~renderPending
  /\ Len(exports) < MaxExports
  /\ PreviewRefCurrent # "null"
  /\ exports' = Append(exports, Awaiting(data))
  /\ UNCHANGED <<data, dataIsDefault, slot, status, renderPending, clock,
                 files, nops, lastOp>>

Settled(captured) == IF captured THEN "fulfilled" ELSE "rejected"

\* Mutant: a failed capture is swallowed and the file is saved all the same.
AfterCaptureIgnoresFailure(i, captured) ==
  /\ exports' = [exports EXCEPT ![i].capture = Settled(captured),
                                ![i].promise = "fulfilled"]
  /\ files' = Append(files, [export |-> i, name |-> FileName(exports[i].data)])

\* Lines 119-124 from the await on, for the i-th call.  When html2canvas
\* rejects, the await throws, nothing catches it and the promise downloadPDF
\* returned rejects; otherwise pdf.save writes one file and the promise is
\* fulfilled.
AfterCapture(i, captured) ==
  IF captured
  THEN /\ exports' = [exports EXCEPT ![i].capture = Settled(captured),
                                     ![i].promise = "fulfilled"]
       /\ files' =
            Append(files, [export |-> i, name |-> FileName(exports[i].data)])
  ELSE /\ exports' = [exports EXCEPT ![i].capture = Settled(captured),
                                     ![i].promise = "rejected"]
       /\ files' = files

\* The promise of html2canvas settles for the i-th call and the rest of
\* downloadPDF runs; it runs as a task of its own, after React has rendered
\* what earlier events changed, and also after the component has unmounted.
html2canvasSettles(i, captured) ==
  /\ i \in 1..Len(exports)
  /\ exports[i].capture = "pending"
  /\ ~renderPending
  /\ AfterCapture(i, captured)
  /\ UNCHANGED <<data, dataIsDefault, slot, status, renderPending, clock,
                 nops, lastOp>>

\* Editing: every handler of the form, no export.
Next ==
  \/ Render
  \/ \E field \in PersonalFieldInputs, value \in Texts :
       setPersonalField(field, value)
  \/ \E value \in Texts : setSummary(value)
  \/ \E tpl \in TemplateInputs : setTemplate(tpl)
  \/ \E skill \in SkillTexts : addSkill(skill)
  \/ /\ status = "mounted"
     /\ \E index \in -1..Len(Get(data, "skills").v) : removeSkill(index)
  \/ clearSkills
  \/ addExperience
  \/ \E id \in IdInputs, field \in ExperienceFieldInputs, value \in EntryTexts :
       updateExperience(id, field, value)
  \/ \E id \in IdInputs : removeExperience(id)
  \/ resetToSample
  \/ addEducation
  \/ \E id \in IdInputs, field \in EducationFieldInputs, value \in EntryTexts :
       updateEducation(id, field, value)
  \/ \E id \in IdInputs : removeEducation(id)
  \/ \E confirmed \in BOOLEAN : resetDraft(confirmed)

Spec == Init /\ [][Next]_vars

\* Stored drafts the export runs start from.
ExportSlots == {NoItem, Item(JSONstringify(StoredDraft))}

InitExport == Init /\ slot \in ExportSlots

\* Exporting, interleaved with edits of the names and with resets.
NextExport ==
  \/ Render
  \/ \E field \in PersonalFieldInputs, value \in Texts :
       setPersonalField(field, value)
  \/ resetDraft(TRUE)
  \/ downloadPDF
  \/ \E i \in 1..MaxExports, captured \in BOOLEAN :
       html2canvasSettles(i, captured)

SpecExport == InitExport /\ [][NextExport]_vars

(***************************************************************************)
(* Properties.                                                             *)
(***************************************************************************)
Mounted == status = "mounted"
\* A handler was invoked in this step.
Invoked(name) == nops' # nops /\ lastOp'.op = name
Entries(d, sec) == Get(d, sec).v
HasId(entries, id) ==
  \E i \in 1..Len(entries) : Get(entries[i], "id") = N(id)
UniqueIds(entries) ==
  \A i, j \in 1..Len(entries) :
    i # j => Get(entries[i], "id") # Get(entries[j], "id")
\* load() gives document d for slot s.
Loads(s, d) == LET r == InitialData(s) IN ~r.threw /\ r.val = d
\* Every section of d is present and of its kind, personal with its eight
\* fields.
FullyDefined(d) ==
  /\ d.k = "obj"
  /\ DOMAIN d.v = Sections
  /\ Get(d, "personal").k = "obj"
  /\ DOMAIN Get(d, "personal").v = PersonalFields
  /\ \A f \in PersonalFields : Get(Get(d, "personal"), f).k = "str"
  /\ Get(d, "summary").k = "str"
  /\ Get(d, "template").k = "str"
  /\ \A sec \in {"skills", "experience", "education"} : Get(d, sec).k = "arr"

\* C1: in every document the component holds, no two entries of experience
\* share an id and no two entries of education share an id.
C1_UniqueEntryIds ==
  Mounted =>
    /\ UniqueIds(Entries(data, "experience"))
    /\ UniqueIds(Entries(data, "education"))

\* C2: write-through: once the render and the effect that follow the last
\* handler have run, load() from the slot gives the document in memory.
C2_WriteThrough ==
  (Mounted /\ ~renderPending) => Loads(slot, data)

C2_Witness ==
  /\ Mounted /\ ~renderPending /\ nops = MaxOps
  /\ lastOp.op = "addExperience"
  /\ data # defaultData
  /\ slot.present

\* C3: with no item in the slot, or with text in it that is no JSON value
\* (a truncated draft among them), the initializer does not throw and
\* returns the built-in document.
C3_CorruptLoadsDefault ==
  (status \in {"init", "threw"}
     /\ (~slot.present \/ slot.text \in CorruptTexts \cup {<<>>}))
    => (status = "init" /\ data = defaultData)

C3_Witness ==
  /\ status = "init"
  /\ slot.present
  /\ slot.text \in Truncations(JSONstringify(StoredDraft))
  /\ Len(slot.text) > 40
  /\ data = defaultData

\* C4: the document the component holds is fully defined, whatever the slot
\* held at construction.
C4_FullyDefined ==
  status \in {"init", "mounted"} => FullyDefined(data)

\* C5: round trip: for every document the component reaches, writing it to
\* the slot as the effect does and loading it gives an equal document.
C5_RoundTrip ==
  Mounted => Loads(Item(JSONstringify(data)), data)

C5_Witness ==
  /\ Mounted /\ nops = MaxOps
  /\ lastOp.op = "updateEducation"
  /\ Len(Entries(data, "experience")) = 2
  /\ data # defaultData /\ data # StoredDraft
  /\ Loads(Item(JSONstringify(data)), data)

\* C6: after a confirmed reset the document in memory is the built-in one,
\* and once the reset's render and effect have run load() gives the
\* built-in document.
C6_ResetGivesDefault ==
  (lastOp.op = "resetDraft" /\ lastOp.arg = "ok") =>
    /\ data = defaultData
    /\ ~renderPending => Loads(slot, defaultData)

C6_Witness ==
  /\ lastOp.op = "resetDraft" /\ lastOp.arg = "ok"
  /\ nops = MaxOps
  /\ Mounted /\ ~renderPending
  /\ slot.present
  /\ Loads(slot, defaultData)

\* C7: setTemplate with a value that is neither variant changes nothing.
C7_InvalidTemplateIsNoOp ==
  [][(Invoked("setTemplate") /\ lastOp'.arg \notin TemplateVariants)
       => data' = data]_vars

\* C8: addSkill with empty or blank text leaves skills unchanged; with
\* any other text it appends that text at the end of skills.
C8_AddSkill ==
  [][Invoked("addSkill") =>
       IF lastOp'.arg \in BlankTexts
       THEN Entries(data', "skills") = Entries(data, "skills")
       ELSE Entries(data', "skills") =
              Append(Entries(data, "skills"), S(lastOp'.arg))]_vars

\* C9: update and remove of an id that is not in the collection leave the
\* document as it is; so does updateExperience(id, ...) right after
\* removeExperience(id), and the same for education.
C9_AbsentIdIsNoOp ==
  [][/\ (Invoked("updateExperience") \/ Invoked("removeExperience"))
          /\ ~HasId(Entries(data, "experience"), lastOp'.id)
        => data' = data
     /\ (Invoked("updateEducation") \/ Invoked("removeEducation"))
          /\ ~HasId(Entries(data, "education"), lastOp'.id)
        => data' = data
     /\ Invoked("updateExperience") /\ lastOp.op = "removeExperience"
          /\ lastOp'.id = lastOp.id
        => data' = data
     /\ Invoked("updateEducation") /\ lastOp.op = "removeEducation"
          /\ lastOp'.id = lastOp.id
        => data' = data]_vars

\* removeExperience(LoadTime) on the built-in document, then
\* updateExperience(LoadTime, ...): the document is as the removal left it.
C9_Witness ==
  /\ Mounted /\ nops = 2
  /\ lastOp.op = "updateExperience" /\ lastOp.id = LoadTime
  /\ data = Spread(defaultData, "experience", A(<<>>))

\* C10: addExperience appends one entry, its text fields empty and its id
\* different from every id already in experience, and leaves the entries
\* before it as they were; on the built-in document, addExperience and
\* then removeExperience of the built-in entry's id leave exactly the added
\* entry.
C10_AddExperience ==
  [][/\ Invoked("addExperience") =>
          LET old == Entries(data, "experience")
              new == Entries(data', "experience")
          IN /\ Len(new) = Len(old) + 1
             /\ SubSeq(new, 1, Len(old)) = old
             /\ \A f \in ExperienceFields : Get(new[Len(new)], f) = S("")
             /\ ~HasId(old, Get(new[Len(new)], "id").v)
     /\ (/\ Invoked("removeExperience") /\ lastOp'.id = LoadTime
         /\ nops = 1 /\ lastOp.op = "addExperience"
         /\ Len(Entries(data, "experience")) = 2
         /\ Entries(data, "experience")[1] = defaultExperience)
        => Entries(data', "experience") = <<Entries(data, "experience")[2]>>
    ]_vars

\* The sections other than sec are the same in d and e.
SameExcept(d, e, sec) ==
  /\ DOMAIN e.v = DOMAIN d.v \cup {sec}
  /\ \A other \in (DOMAIN d.v) \ {sec} : e.v[other] = d.v[other]

\* C11: updateExperience(id, field, value) replaces field of the one entry
\* that has the id and changes nothing else: not another field of that
\* entry, not another entry, not another section; the same for
\* updateEducation.
C11_UpdateOnlyField ==
  [][\A sec \in {"experience", "education"} :
       (/\ Invoked(IF sec = "experience" THEN "updateExperience"
                   ELSE "updateEducation")
        /\ HasId(Entries(data, sec), lastOp'.id))
       => LET old == Entries(data, sec)
              new == Entries(data', sec)
          IN /\ SameExcept(data, data', sec)
             /\ Len(new) = Len(old)
             /\ \E i \in 1..Len(old) :
                  /\ Get(old[i], "id") = N(lastOp'.id)
                  /\ Get(new[i], lastOp'.field) = S(lastOp'.arg)
                  /\ DOMAIN new[i].v = DOMAIN old[i].v
                  /\ \A f \in (DOMAIN old[i].v) \ {lastOp'.field} :
                       new[i].v[f] = old[i].v[f]
                  /\ \A j \in (1..Len(old)) \ {i} : new[j] = old[j]]_vars

\* C12: removeSkill(index) with 0 <= index < length removes the skill at
\* that position and keeps the others in order; with any other index it
\* changes nothing; the component stays mounted.
C12_RemoveSkill ==
  [][Invoked("removeSkill") =>
       LET old == Entries(data, "skills")
           new == Entries(data', "skills")
           index == lastOp'.index
       IN /\ status' = "mounted"
          /\ IF 0 <= index /\ index < Len(old)
             THEN /\ SameExcept(data, data', "skills")
                  /\ Len(new) = Len(old) - 1
                  /\ \A j \in 1..index : new[j] = old[j]
                  /\ \A j \in (index + 1)..Len(new) : new[j] = old[j + 1]
             ELSE data' = data]_vars

\* removeSkill(1) on the built-in document, and then removeSkill with the
\* length of what is left.
C12_Witness ==
  /\ Mounted /\ nops = 2
  /\ lastOp.op = "removeSkill" /\ lastOp.index = 3
  /\ Entries(data, "skills") =
       <<S("Product Strategy"), S("User Research"),
         S("Stakeholder Management")>>

\* a is b with some elements left out.
RECURSIVE IsSubseq(_, _)
IsSubseq(a, b) ==
  \/ a = <<>>
  \/ /\ b # <<>>
     /\ \/ Head(a) = Head(b) /\ IsSubseq(Tail(a), Tail(b))
        \/ IsSubseq(a, Tail(b))

SameIds(old, new) ==
  /\ Len(new) = Len(old)
  /\ \A i \in 1..Len(old) : Get(new[i], "id") = Get(old[i], "id")

\* C13: in skills, experience and education the elements that survive a
\* handler keep their order and an add puts the new element last; only
\* remove, clear and reset delete elements, and a remove deletes only the
\* element it was called for.
C13_OrderPreserved ==
  [][nops' # nops =>
       \A sec \in {"skills", "experience", "education"} :
         LET old == Entries(data, sec)
             new == Entries(data', sec)
             op == lastOp'.op
             adds == [skills |-> {"addSkill"},
                      experience |-> {"addExperience"},
                      education |-> {"addEducation"}]
             removes == [skills |-> {"removeSkill"},
                         experience |-> {"removeExperience"},
                         education |-> {"removeEducation"}]
             updates == [skills |-> {},
                         experience |-> {"updateExperience"},
                         education |-> {"updateEducation"}]
             resets == [skills |-> {"clearSkills", "resetDraft"},
                        experience |-> {"resetToSample", "resetDraft"},
                        education |-> {"resetDraft"}]
         IN CASE op \in adds[sec] ->
                   \/ new = old
                   \/ Len(new) = Len(old) + 1 /\ SubSeq(new, 1, Len(old)) = old
              [] op \in removes[sec] ->
                   IsSubseq(new, old) /\ Len(new) >= Len(old) - 1
              [] op \in updates[sec] -> SameIds(old, new)
              [] op \in resets[sec] -> TRUE
              [] OTHER -> new = old]_vars

\* C14: when the write to the slot fails in the effect that follows a
\* handler, nothing escapes: the component stays mounted with the document
\* the handler produced.
C14_WriteFailureIsCaught ==
  [][(/\ nops > 0 /\ Mounted
      /\ renderPending /\ ~renderPending'
      /\ ~RenderThrows(data))
       => (status' = "mounted" /\ data' = data)]_vars

\* The tree has, for each entry of experience and of education, one element
\* at the entry's position, keyed by the entry's id and showing the entry's
\* fields.
ShowsEntries(tree, d) ==
  \A sec \in {"experience", "education"} :
    LET entries == Entries(d, sec)
        shown == tree[sec]
        fields == IF sec = "experience"
                  THEN ExperienceFields ELSE EducationFields
    IN /\ Len(shown) = Len(entries)
       /\ \A i \in 1..Len(entries) :
            /\ shown[i].key = Get(entries[i], "id")
            /\ \A f \in fields \ {"id"} :
                 \E c \in 1..Len(shown[i].children) :
                   shown[i].children[c] = Get(entries[i], f)

\* C18: the Modern and the Classic rendering of a document each contain
\* every entry of experience and of education exactly once, in stored order
\* (none for an empty collection), and rendering leaves the document
\* unchanged.
C18_TemplatesShowEntries ==
  [][/\ (Mounted' /\ ~RenderThrows(data'))
          => /\ ShowsEntries(ModernTemplate(data'), data')
             /\ ShowsEntries(ClassicTemplate(data'), data')
             /\ Preview(data') \in
                  {ModernTemplate(data'), ClassicTemplate(data')}
     /\ (renderPending /\ ~renderPending') => data' = data]_vars

\* The classic preview of two experience entries has been rendered.
C18_Witness ==
  /\ Mounted /\ ~renderPending
  /\ Get(data, "template") = S("classic")
  /\ lastOp.op = "addExperience"
  /\ Len(Preview(data).experience) = 2
  /\ Len(Preview(data).education) = 1

\* C20: once resetDraft and the effects that follow it have run, the slot
\* holds no value, until the next handler runs.
C20_ResetClearsSlot ==
  (/\ lastOp.op = "resetDraft" /\ lastOp.arg = "ok"
   /\ Mounted /\ ~renderPending)
    => ~slot.present

\* The mutation state: all but the exports and their files.
docVars == <<data, dataIsDefault, slot, status, renderPending, clock, nops,
             lastOp>>
FilesOf(fs, i) == {f \in 1..Len(fs) : fs[f].export = i}

\* C15: when the capture of an export fails, the promise the export
\* returned is rejected, the export has written no file, and the step that
\* ends it leaves the document as it was.
C15_FailedCaptureRejects ==
  [][\A i \in 1..Len(exports') :
       exports'[i].capture = "rejected"
       => /\ exports'[i].promise = "rejected"
          /\ FilesOf(files', i) = {}
          /\ (i <= Len(exports) /\ exports[i].capture = "pending")
               => (files' = files /\ UNCHANGED docVars)]_vars

\* An export requested after an edit has failed, with no file written.
C15_Witness ==
  /\ nops = 1 /\ lastOp.op = "setPersonalField"
  /\ Len(exports) = 1
  /\ exports[1].capture = "rejected" /\ exports[1].promise = "rejected"
  /\ exports[1].data = data
  /\ files = <<>>

\* C16: an export does not interfere with the document.  The steps of an
\* export (request, settling of the capture, save) leave the mutation state
\* unchanged, and while a capture is pending every handler and the render
\* stay enabled exactly as without it, so any interleaving gives the document
\* the same mutations give with no export.
C16_ExportDoesNotInterfere ==
  [][/\ (exports' # exports \/ files' # files) => UNCHANGED docVars
     /\ (\E i \in 1..Len(exports) : exports[i].capture = "pending")
          => /\ (Mounted /\ ~renderPending /\ nops < MaxOps)
                  => /\ \A field \in PersonalFieldInputs, value \in Texts :
                          ENABLED setPersonalField(field, value)
                     /\ ENABLED resetDraft(TRUE)
             /\ (Mounted /\ renderPending) => ENABLED Render
     /\ (Invoked("resetDraft") /\ lastOp'.arg = "ok")
          => (data' = defaultData /\ ~slot'.present)
     /\ Invoked("setPersonalField")
          => \E field \in PersonalFieldInputs, value \in Texts :
               data' = SetPersonalFieldResult(data, field, value)]_vars

\* The first export has saved its file although the document was edited
\* while its capture was pending, and a second capture is still pending.
C16_Witness ==
  /\ Mounted /\ ~renderPending
  /\ Len(exports) = 2
  /\ exports[1].promise = "fulfilled" /\ exports[1].data # data
  /\ exports[2].capture = "pending" /\ exports[2].data = data
  /\ Len(files) = 1
  /\ lastOp.op = "setPersonalField"

\* C17: exports requested while another is pending run side by side.  Each
\* export whose capture succeeded has exactly one file of its own; a request
\* is possible while a capture is pending; an export changes only when its
\* own capture settles; files and exports are never taken back or replaced.
C17_ConcurrentExports ==
  [][/\ \A i \in 1..Len(exports') :
          /\ exports'[i].capture = "fulfilled"
               => (/\ exports'[i].promise = "fulfilled"
                   /\ Cardinality(FilesOf(files', i)) = 1)
          /\ exports'[i].capture = "pending"
               => exports'[i].promise = "pending"
     /\ Len(exports') >= Len(exports)
     /\ Len(files') >= Len(files)
     /\ SubSeq(files', 1, Len(files)) = files
     /\ \A i \in 1..Len(exports) :
          \/ exports'[i] = exports[i]
          \/ /\ exports[i].capture = "pending"
             /\ exports'[i].capture # "pending"
             /\ exports'[i].data = exports[i].data
             /\ \A j \in (1..Len(exports)) \ {i} : exports'[j] = exports[j]
     /\ (\E i \in 1..Len(exports) : exports[i].capture = "pending")
          => /\ (Mounted /\ ~renderPending /\ Len(exports) < MaxExports)
                  => ENABLED downloadPDF
             /\ \A i \in 1..Len(exports) :
                  (exports[i].capture = "pending" /\ ~renderPending)
                    => ENABLED html2canvasSettles(i, TRUE)]_vars

\* Two exports were pending together and both saved, the second first.
C17_Witness ==
  /\ Len(exports) = 2
  /\ exports[1].promise = "fulfilled" /\ exports[2].promise = "fulfilled"
  /\ Len(files) = 2
  /\ files[1].export = 2 /\ files[2].export = 1

\* A name of the snapshot, or resume when it is empty.
NameOrResume(d, field) ==
  LET name == Get(Get(d, "personal"), field)
  IN IF name = S("") THEN S("resume") ELSE name

\* C19: every file is named {firstName}-{lastName}.pdf with the names the
\* document had when its export was requested, each replaced by resume when
\* empty.
C19_FileName ==
  \A f \in 1..Len(files) :
    LET snapshot == exports[files[f].export].data
    IN files[f].name =
         <<NameOrResume(snapshot, "firstName"), S("-"),
           NameOrResume(snapshot, "lastName"), S(".pdf")>>

\* The first name was empty at the request and was edited while the capture
\* was pending: the file has resume for the first name and the last name of
\* the request.
C19_Witness ==
  /\ Len(files) = 1 /\ files[1].export = 1
  /\ Get(Get(exports[1].data, "personal"), "firstName") = S("")
  /\ Get(Get(data, "personal"), "firstName") = S("x")
  /\ files[1].name =
       <<S("resume"), S("-"),
         Get(Get(defaultData, "personal"), "lastName"), S(".pdf")>>

====
